---- MODULE Spec2Model ----
(***************************************************************************)
(* Model of tiktokBulkDownloader.py: main, clean_links_file, the filename  *)
(* template resolver, download_with_ytdlp (first pass and retry pass),     *)
(* save_metadata_to_csv and signal_handler.                                *)
(*                                                                         *)
(* Strings that the code inspects character by character (the lines of the *)
(* links file, the links) are sequences of one-character strings.  Filename *)
(* templates are sequences of atoms: a placeholder such as "%(ext)s" or a  *)
(* piece of literal text is one atom, so `"%(ext)s" in template` is        *)
(* membership of the atom.  The wall clock is a minute counter, because    *)
(* both log names are strftime("%Y-%m-%d_%H-%M") of the current time.      *)
(***************************************************************************)
EXTENDS Integers, Sequences, FiniteSets, TLC

\* ---------------------------------------------------------------- bounds
\* most lines of a links file in the run specification
MaxLines == 2
\* last minute the wall clock can reach (the run starts in minute 0)
MaxClock == 1
\* most tokens after the script name on the command line (naming specification)
MaxArgs == 3
\* most chunks (pieces of text or line ends) of a links file (normalizer specification)
MaxChunks == 5
\* most variables after --filename-custom (resolver specification)
MaxTokens == 3
\* deepest nesting of download_with_ytdlp the model follows
MaxDepth == 3

\* ------------------------------------------------------- string helpers
\* the characters of the string constants the model uses
Chars(s) ==
    CASE s = "Link: "   -> <<"L", "i", "n", "k", ":", " ">>
      [] s = "Date:"    -> <<"D", "a", "t", "e", ":">>
      [] s = "http://"  -> <<"h", "t", "t", "p", ":", "/", "/">>
      [] s = "https://" -> <<"h", "t", "t", "p", "s", ":", "/", "/">>
      [] s = "http://a" -> <<"h", "t", "t", "p", ":", "/", "/", "a">>
      [] s = "http://b" -> <<"h", "t", "t", "p", ":", "/", "/", "b">>
      [] s = ""         -> <<>>
      [] OTHER          -> <<s>>

\* str.isspace of one character
IsSpace(c) == c \in {" ", "\t", "\n"}

RECURSIVE LStrip(_)
LStrip(s) == IF s # <<>> /\ IsSpace(Head(s)) THEN LStrip(Tail(s)) ELSE s

RECURSIVE RStrip(_)
RStrip(s) ==
    IF s # <<>> /\ IsSpace(s[Len(s)]) THEN RStrip(SubSeq(s, 1, Len(s) - 1)) ELSE s

\* str.strip()
Strip(s) == RStrip(LStrip(s))

\* str.startswith(p)
StartsWith(s, p) == Len(s) >= Len(p) /\ SubSeq(s, 1, Len(p)) = p

\* str.replace(old, new): every non-overlapping occurrence, left to right
RECURSIVE Replace(_, _, _)
Replace(s, old, new) ==
    IF s = <<>> THEN <<>>
    ELSE IF StartsWith(s, old)
         THEN new \o Replace(SubSeq(s, Len(old) + 1, Len(s)), old, new)
         ELSE <<Head(s)>> \o Replace(Tail(s), old, new)

\* ----------------------------------------------------- clean_links_file
\* the body of the for loop over the lines that were read: one line
CleanLine(raw) ==
    LET line == Strip(raw) IN
    IF line = <<>> \/ StartsWith(line, Chars("Date:")) THEN <<>>
    ELSE IF StartsWith(line, Chars("Link: "))
         THEN <<Replace(line, Chars("Link: "), <<>>)>>
         ELSE <<line>>

RECURSIVE CleanLines(_)
CleanLines(lines) ==
    IF lines = <<>> THEN <<>> ELSE CleanLine(Head(lines)) \o CleanLines(Tail(lines))

\* A file is [exists, lines, errAt]: errAt = 0 when every read succeeds, and
\* errAt = k when open() or the read that would deliver line k raises; the
\* except clause prints the error and the lines cleaned so far are returned.
clean_links_file(file) ==
    IF file.errAt = 0 THEN CleanLines(file.lines)
    ELSE CleanLines(SubSeq(file.lines, 1, file.errAt - 1))

\* ------------------------------------------------- filename templates
\* the atoms of a template string given on the command line
TemplateAtoms(s) ==
    CASE s = "%(title)s.%(ext)s" -> <<"%(title)s", ".", "%(ext)s">>
      [] s = "%(title)s"         -> <<"%(title)s">>
      [] s = "x.%(ext)s"         -> <<"x", ".", "%(ext)s">>
      [] s = ""                  -> <<>>
      [] OTHER                   -> <<s>>

\* `sub in template` for a placeholder
Contains(template, atom) == \E i \in 1..Len(template) : template[i] = atom

get_simple_variable_mapping ==
    [k \in {"title", "creator", "description", "videoid", "videoID", "creatorid",
            "creatorID", "date", "year", "month", "day", "shortdate", "fulldate",
            "views", "likes", "comments", "shares", "duration", "resolution",
            "fps", "format", "platform", "ext"} |->
        CASE k = "title"       -> "%(title).180B"
          [] k = "creator"     -> "%(uploader).50s"
          [] k = "description" -> "%(description).100s"
          [] k = "videoid"     -> "%(id)s"
          [] k = "videoID"     -> "%(id)s"
          [] k = "creatorid"   -> "%(uploader_id)s"
          [] k = "creatorID"   -> "%(uploader_id)s"
          [] k = "date"        -> "%(upload_date>%Y-%m-%d)s"
          [] k = "year"        -> "%(upload_date>%Y)s"
          [] k = "month"       -> "%(upload_date>%m)s"
          [] k = "day"         -> "%(upload_date>%d)s"
          [] k = "shortdate"   -> "%(upload_date>%y%m%d)s"
          [] k = "fulldate"    -> "%(upload_date)s"
          [] k = "views"       -> "%(view_count)s"
          [] k = "likes"       -> "%(like_count)s"
          [] k = "comments"    -> "%(comment_count)s"
          [] k = "shares"      -> "%(repost_count)s"
          [] k = "duration"    -> "%(duration)s"
          [] k = "resolution"  -> "%(resolution)s"
          [] k = "fps"         -> "%(fps)s"
          [] k = "format"      -> "%(format_id)s"
          [] k = "platform"    -> "%(extractor)s"
          [] k = "ext"         -> "%(ext)s"]

\* a comparison that keeps the case of the token
Lower_Identity(s) == s

\* str.lower() on the tokens the model puts on a command line
Lower(s) ==
    CASE s = "videoID"   -> "videoid"
      [] s = "creatorID" -> "creatorid"
      [] s = "Title"     -> "title"
      [] s = "EXT"       -> "ext"
      [] OTHER           -> s

\* the loop of build_custom_filename_template: one part per variable
RECURSIVE TemplateParts(_)
TemplateParts(variables) ==
    IF variables = <<>> THEN <<>>
    ELSE LET var == Head(variables)
             var_lower == Lower(var)
             mapping == get_simple_variable_mapping
         IN  <<IF var_lower \in DOMAIN mapping
                 THEN <<mapping[var_lower]>>
                 ELSE TemplateAtoms(var)>> \o TemplateParts(Tail(variables))

\* '_'.join(parts)
RECURSIVE JoinUnderscore(_)
JoinUnderscore(parts) ==
    IF parts = <<>> THEN <<>>
    ELSE IF Len(parts) = 1 THEN parts[1]
    ELSE parts[1] \o <<"_">> \o JoinUnderscore(Tail(parts))

\* build_custom_filename_template without the extension fallback
build_custom_filename_template_NoExt(variables) == JoinUnderscore(TemplateParts(variables))

build_custom_filename_template(variables) ==
    LET template == JoinUnderscore(TemplateParts(variables)) IN
    IF ~Contains(template, "%(ext)s") THEN template \o <<".", "%(ext)s">> ELSE template

presets ==
    [n \in {"default", "no-date", "title-only", "creator-id", "date-title", "clean"} |->
        CASE n = "default"    -> <<"%(upload_date).10s", "_", "%(uploader).50s", "_",
                                   "%(title).180B", ".", "%(ext)s">>
          [] n = "no-date"    -> <<"%(uploader).50s", "_", "%(title).180B", ".", "%(ext)s">>
          [] n = "title-only" -> <<"%(title).200B", ".", "%(ext)s">>
          [] n = "creator-id" -> <<"%(uploader)s", "_", "%(id)s", ".", "%(ext)s">>
          [] n = "date-title" -> <<"%(upload_date)s", "_", "%(title).150B", ".", "%(ext)s">>
          [] n = "clean"      -> <<"%(uploader)s", "_", "%(title).100s", ".", "%(ext)s">>]

\* a resolver that looks at the named preset before the convenience flags
get_filename_template_PresetFirst(args) ==
    IF args.filename_custom # <<>>
    THEN [template |-> build_custom_filename_template(args.filename_custom), warned |-> FALSE]
    ELSE IF args.custom_template # <<>>
    THEN [template |-> args.custom_template, warned |-> FALSE]
    ELSE IF args.filename_preset # ""
    THEN IF args.filename_preset \in DOMAIN presets
         THEN [template |-> presets[args.filename_preset], warned |-> FALSE]
         ELSE [template |-> presets["default"], warned |-> TRUE]
    ELSE IF args.no_date THEN [template |-> presets["no-date"], warned |-> FALSE]
    ELSE IF args.title_only THEN [template |-> presets["title-only"], warned |-> FALSE]
    ELSE IF args.creator_id THEN [template |-> presets["creator-id"], warned |-> FALSE]
    ELSE [template |-> presets["default"], warned |-> FALSE]

\* args is the dictionary main builds; an absent key reads as the falsy value
\* of its type ("" / <<>> / FALSE), which is what args.get(...) tests.
\* The result is the template and whether the unknown-preset warning is printed.
get_filename_template(args) ==
    IF args.filename_custom # <<>>
    THEN [template |-> build_custom_filename_template(args.filename_custom), warned |-> FALSE]
    ELSE IF args.custom_template # <<>>
    THEN [template |-> args.custom_template, warned |-> FALSE]
    ELSE IF args.no_date THEN [template |-> presets["no-date"], warned |-> FALSE]
    ELSE IF args.title_only THEN [template |-> presets["title-only"], warned |-> FALSE]
    ELSE IF args.creator_id THEN [template |-> presets["creator-id"], warned |-> FALSE]
    ELSE IF args.filename_preset # ""
    THEN IF args.filename_preset \in DOMAIN presets
         THEN [template |-> presets[args.filename_preset], warned |-> FALSE]
         ELSE [template |-> presets["default"], warned |-> TRUE]
    ELSE [template |-> presets["default"], warned |-> FALSE]

\* the return value; the content-identifier test only prints a warning
validate_filename_template(template) == Contains(template, "%(ext)s")

\* ------------------------------------------------ show_filename_preview
\* The metadata values are sequences of characters; a rendered filename is a
\* sequence of characters in which a placeholder that was not substituted
\* stays one atom.
Digits(s) ==
    CASE s = "20241207" -> <<"2", "0", "2", "4", "1", "2", "0", "7">>
      [] s = "2024"     -> <<"2", "0", "2", "4">>
      [] s = "01"       -> <<"0", "1">>
      [] s = "240101"   -> <<"2", "4", "0", "1", "0", "1">>
      [] s = "999"      -> <<"9", "9", "9">>
      [] s = "alice"    -> <<"a", "l", "i", "c", "e">>
      [] s = "mp4"      -> <<"m", "p", "4">>
      [] s = "2022-06-07" -> <<"2", "0", "2", "2", "-", "0", "6", "-", "0", "7">>
      [] OTHER          -> <<s>>

\* s[a:b] with 0 <= a <= b, and s[a:]
Slice(s, a, b) == SubSeq(s, a + 1, IF b < Len(s) THEN b ELSE Len(s))
SliceFrom(s, a) == SubSeq(s, a + 1, Len(s))

\* str.replace(placeholder, value) on a template
RECURSIVE ReplaceAtom(_, _, _)
ReplaceAtom(t, atom, value) ==
    IF t = <<>> THEN <<>>
    ELSE (IF Head(t) = atom THEN value ELSE <<Head(t)>>) \o ReplaceAtom(Tail(t), atom, value)

\* lines 374-397: the sample filename for a template and the metadata
RenderSample(filename_template, data) ==
    LET upload_date == data.upload_date
        formatted_date ==
            IF upload_date # <<>>
            THEN Slice(upload_date, 0, 4) \o <<"-">> \o Slice(upload_date, 4, 6)
                   \o <<"-">> \o SliceFrom(upload_date, 6)
            ELSE Digits("2022-06-07")
        uploader == data.uploader
        title == data.title
        video_id == data.id
        s1  == ReplaceAtom(filename_template, "%(upload_date).10s", formatted_date)
        s2  == ReplaceAtom(s1, "%(upload_date>%Y-%m-%d)s", formatted_date)
        s3  == ReplaceAtom(s2, "%(upload_date>%Y)s",
                   IF upload_date # <<>> THEN Slice(upload_date, 0, 4) ELSE Digits("2024"))
        s4  == ReplaceAtom(s3, "%(upload_date>%m)s",
                   IF upload_date # <<>> THEN Slice(upload_date, 4, 6) ELSE Digits("01"))
        s5  == ReplaceAtom(s4, "%(upload_date>%d)s",
                   IF upload_date # <<>> THEN Slice(upload_date, 6, 8) ELSE Digits("01"))
        s6  == ReplaceAtom(s5, "%(upload_date>%y%m%d)s",
                   IF upload_date # <<>> THEN SliceFrom(upload_date, 2) ELSE Digits("240101"))
        s7  == ReplaceAtom(s6, "%(upload_date)s", upload_date)
        s8  == ReplaceAtom(s7, "%(uploader).50s", Slice(uploader, 0, 50))
        s9  == ReplaceAtom(s8, "%(uploader)s", uploader)
        s10 == ReplaceAtom(s9, "%(title).180B", Slice(title, 0, 180))
        s11 == ReplaceAtom(s10, "%(title).200B", Slice(title, 0, 200))
        s12 == ReplaceAtom(s11, "%(title).150B", Slice(title, 0, 150))
        s13 == ReplaceAtom(s12, "%(title).100s", Slice(title, 0, 100))
        s14 == ReplaceAtom(s13, "%(title)s", title)
        s15 == ReplaceAtom(s14, "%(id)s", video_id)
    IN  ReplaceAtom(s15, "%(ext)s", Digits("mp4"))

\* ------------------------------------------------------ main: arguments
valid_args ==
    {"--cookies", "--links", "--watermark", "--no-date", "--title-only", "--creator-id",
     "--filename-preset", "--filename-yt-dlp", "--filename-custom", "--help",
     "--list-presets", "--list-variables", "--preview-filename"}

\* arg.startswith("-") on the tokens the model puts on a command line
\* (every such token starts with "--", so this is startswith("--") as well)
StartsWithDash(a) == a \in valid_args \cup {"--frobnicate"}

\* `flag in sys.argv` and sys.argv.index(flag); argv is sys.argv[1:], 1-based
InArgv(av, flag) == \E i \in 1..Len(av) : av[i] = flag
IndexOf(av, flag) == CHOOSE i \in 1..Len(av) : av[i] = flag /\ \A j \in 1..(i - 1) : av[j] # flag

\* the while loop that collects the --filename-custom variables from position k
RECURSIVE CustomVars(_, _)
CustomVars(av, k) ==
    IF k <= Len(av) /\ ~StartsWithDash(av[k])
    THEN <<av[k]>> \o CustomVars(av, k + 1)
    ELSE <<>>

NoArgs ==
    [use_cookies |-> FALSE, use_watermark |-> FALSE, no_date |-> FALSE,
     title_only |-> FALSE, creator_id |-> FALSE, filename_preset |-> "",
     custom_template |-> <<>>, filename_custom |-> <<>>]

\* main up to the --links handling: "run" with the args dictionary, or the
\* reason main returns early
ParseArgs(av) ==
    LET provided == {a \in {av[i] : i \in 1..Len(av)} : StartsWithDash(a)}
        has(f)   == InArgv(av, f)
        val(f)   == av[IndexOf(av, f) + 1]
        lacks(f) == has(f) /\ IndexOf(av, f) + 1 > Len(av)
        vars     == IF has("--filename-custom")
                    THEN CustomVars(av, IndexOf(av, "--filename-custom") + 1) ELSE <<>>
        stop(why) == [outcome |-> why, args |-> NoArgs]
    IN
    IF provided \ valid_args # {} THEN stop("unrecognized")
    ELSE IF has("--help") THEN stop("help")
    ELSE IF has("--list-presets") THEN stop("list_presets")
    ELSE IF has("--list-variables") THEN stop("list_variables")
    ELSE IF has("--preview-filename") THEN stop("preview")
    ELSE IF lacks("--filename-preset") THEN stop("preset_needs_name")
    ELSE IF lacks("--filename-yt-dlp") THEN stop("template_needs_string")
    ELSE IF has("--filename-yt-dlp")
            /\ ~validate_filename_template(TemplateAtoms(val("--filename-yt-dlp")))
         THEN stop("invalid_template")
    ELSE IF lacks("--filename-custom") \/ (has("--filename-custom") /\ vars = <<>>)
         THEN stop("custom_needs_variable")
    ELSE [outcome |-> "run",
          args |-> [use_cookies     |-> has("--cookies"),
                    use_watermark   |-> has("--watermark"),
                    no_date         |-> has("--no-date"),
                    title_only      |-> has("--title-only"),
                    creator_id      |-> has("--creator-id"),
                    filename_preset |-> IF has("--filename-preset")
                                        THEN val("--filename-preset") ELSE "",
                    custom_template |-> IF has("--filename-yt-dlp")
                                        THEN TemplateAtoms(val("--filename-yt-dlp")) ELSE <<>>,
                    filename_custom |-> vars]]

\* re.match(r'https?://', links_arg)
LooksLikeUrl(s) == StartsWith(s, Chars("http://")) \/ StartsWith(s, Chars("https://"))

\* ------------------------------------------------------------ the logs
NoCsv == [exists |-> FALSE, rows |-> <<>>]

\* the CSV file: the header row is written with the file, rows are the data rows
save_metadata_to_csv(files, metadata, now) ==
    IF metadata = <<>> THEN files
    ELSE [files EXCEPT ![now] = [exists |-> TRUE, rows |-> metadata]]

\* signal_handler without the save
signal_handler_NoSave(files, metadata, now) == files

\* what signal_handler does to the files before sys.exit(0)
signal_handler(files, metadata, now) ==
    IF metadata # <<>> THEN save_metadata_to_csv(files, metadata, now) ELSE files

\* the template download_with_ytdlp uses when filename_template is falsy
FallbackTemplate ==
    <<"%(upload_date).10s", " - ", "%(uploader).50s", " - ", "%(title).180B", ".", "%(ext)s">>

\* ------------------------------------------------------------ the state
VARIABLES
    argv,                \* sys.argv[1:]
    links_file,          \* the file the link source names: [exists, lines, errAt]
    pc,                  \* where the process is
    handler_installed,   \* signal.signal(SIGINT, signal_handler) has run
    args,                \* main's args dictionary
    links,               \* main's links
    dir_exists,          \* the download directory exists
    filename_template,   \* main's filename_template
    retry_attempted,     \* the global
    downloaded_metadata, \* the global: one row per success
    stack,               \* the frames of download_with_ytdlp, innermost last
    clock,               \* the minute datetime.now() is in
    csv_files,           \* minute in the name |-> the <name>_download_log.csv
    failed_logs,         \* minute in the name |-> the <name>_failed_downloads_log.txt
    jobs,                \* per pass, per position: [url, state, fetches, fetch_ok, template]
    flushes,             \* the calls of save_metadata_to_csv, in order
    summaries,           \* the final summaries printed, in order
    preview_data,        \* the metadata yt-dlp returns for --preview-filename
    preset_warning,      \* the unknown-preset warning has been printed
    sample_filename      \* the "Result:" line of the filename preview

vars ==
    <<argv, links_file, pc, handler_installed, args, links, dir_exists, filename_template,
      retry_attempted, downloaded_metadata, stack, clock, csv_files, failed_logs, jobs,
      flushes, summaries, preview_data, preset_warning, sample_filename>>

inputs == <<argv, links_file, preview_data>>
console == <<preset_warning, sample_filename>>
mainVars == <<args, links, dir_exists, filename_template>>
files == <<csv_files, failed_logs>>
history == <<jobs, flushes, summaries>>

Minutes == 0..MaxClock
Ended == pc \in {"done", "crashed", "exited"}

\* the innermost frame and the pass it runs
Top == stack[Len(stack)]
SetTop(f) == [stack EXCEPT ![Len(stack)] = f]
Link == Top.links[Top.index]
SetJob(field, value) == [jobs EXCEPT ![Top.pass][Top.index][field] = value]

\* ------------------------------------------------------------- inputs
NoFile == [exists |-> FALSE, lines |-> <<>>, errAt |-> 0]

RunLines ==
    {Chars("http://a"), Chars("Link: ") \o Chars("http://b"), Chars("Date:") \o <<" ", "1">>}

SeqsUpTo(S, n) == UNION {[1..k -> S] : k \in 0..n}

RunFiles ==
    {NoFile} \cup
    {[exists |-> TRUE, lines |-> ls, errAt |-> e] :
        ls \in SeqsUpTo(RunLines, MaxLines), e \in 0..1} \cup
    {f \in [exists : {TRUE}, lines : SeqsUpTo(RunLines, MaxLines), errAt : 2..MaxLines] :
        f.errAt <= Len(f.lines)}

RunArgv == {<<>>, <<"--links", "http://a">>, <<"--links">>}

\* no preview was asked for
NoData == [upload_date |-> <<>>, uploader |-> <<>>, title |-> <<>>, id |-> <<>>]

InitWith(av, file) ==
    /\ argv = av
    /\ links_file = file
    /\ pc = "main"
    /\ handler_installed = FALSE
    /\ args = NoArgs
    /\ links = <<>>
    /\ dir_exists = FALSE
    /\ filename_template = <<>>
    /\ retry_attempted = FALSE
    /\ downloaded_metadata = <<>>
    /\ stack = <<>>
    /\ clock = 0
    /\ csv_files = [m \in Minutes |-> NoCsv]
    /\ failed_logs = [m \in Minutes |-> <<>>]
    /\ jobs = <<>>
    /\ flushes = <<>>
    /\ summaries = <<>>
    /\ preview_data = NoData
    /\ preset_warning = FALSE
    /\ sample_filename = <<>>

Init ==
    \E av \in RunArgv, file \in RunFiles :
        /\ (av # <<>> => file = NoFile)
        /\ InitWith(av, file)

\* --------------------------------------------------------------- main
\* lines 578-723: install the handler, check and parse the arguments
MainArgs ==
    /\ pc = "main"
    /\ handler_installed' = TRUE
    /\ LET r == ParseArgs(argv) IN
         /\ args' = r.args
         /\ pc' = IF r.outcome = "run" THEN "links" ELSE "done"
    /\ UNCHANGED <<inputs, console, links, dir_exists, filename_template, retry_attempted,
                   downloaded_metadata, stack, clock, files, history>>

\* lines 725-749: the link source
MainLinks ==
    /\ pc = "links"
    /\ LET has == InArgv(argv, "--links")
           idx == IndexOf(argv, "--links") + 1
       IN
       IF has /\ idx > Len(argv)
       THEN \* sys.argv[links_arg_index] raises IndexError
            /\ pc' = "crashed"
            /\ links' = links
       ELSE LET links_arg == IF has THEN Chars(argv[idx]) ELSE Chars("links.txt")
                found == IF LooksLikeUrl(links_arg) THEN <<Strip(links_arg)>>
                         ELSE IF ~links_file.exists THEN <<>>
                         ELSE clean_links_file(links_file)
            IN  /\ links' = found
                /\ pc' = IF found = <<>> THEN "done" ELSE "dir"
    /\ UNCHANGED <<inputs, console, handler_installed, args, dir_exists, filename_template,
                   retry_attempted, downloaded_metadata, stack, clock, files, history>>

\* lines 751-779: the directory prompt; makedirs may fail
MainDir ==
    /\ pc = "dir"
    /\ \E made \in BOOLEAN :
         /\ dir_exists' = made
         /\ pc' = IF made THEN "template" ELSE "done"
    /\ UNCHANGED <<inputs, console, handler_installed, args, links, filename_template,
                   retry_attempted, downloaded_metadata, stack, clock, files, history>>

\* lines 781-800: resolve the template, then call download_with_ytdlp
MainTemplate ==
    /\ pc = "template"
    /\ filename_template' = get_filename_template(args).template
    /\ preset_warning' = (preset_warning \/ get_filename_template(args).warned)
    /\ pc' = "call"
    /\ UNCHANGED <<inputs, sample_filename, handler_installed, args, links, dir_exists, retry_attempted,
                   downloaded_metadata, stack, clock, files, history>>

\* lines 802-804: the closing message
MainTail ==
    /\ pc = "main_tail"
    /\ pc' = "done"
    /\ UNCHANGED <<inputs, console, handler_installed, mainVars, retry_attempted,
                   downloaded_metadata, stack, clock, files, history>>

\* lines 344-409: show_filename_preview; the metadata command may fail or
\* time out, and then nothing is rendered
ShowPreview ==
    /\ pc = "preview"
    /\ \E fetched \in BOOLEAN :
         IF fetched
         THEN /\ filename_template' = get_filename_template(args).template
              /\ preset_warning' = (preset_warning \/ get_filename_template(args).warned)
              /\ sample_filename' =
                    RenderSample(get_filename_template(args).template, preview_data)
         ELSE UNCHANGED <<filename_template, preset_warning, sample_filename>>
    /\ pc' = "done"
    /\ UNCHANGED <<inputs, handler_installed, args, links, dir_exists, retry_attempted,
                   downloaded_metadata, stack, clock, files, history>>

\* ------------------------------------------------- download_with_ytdlp
NewJob(url) ==
    [url |-> url, state |-> "Pending", fetches |-> 0, fetch_ok |-> FALSE, template |-> <<>>]

\* return from the innermost call: the caller resumes after line 557, main after line 800
Return ==
    /\ stack' = SubSeq(stack, 1, Len(stack) - 1)
    /\ pc' = IF Len(stack) = 1 THEN "main_tail" ELSE "final"

\* lines 454-474: entry of a pass; the log name is taken from the clock here
StartPass ==
    /\ pc = "call"
    /\ Len(stack) < MaxDepth
    /\ LET ls == IF stack = <<>> THEN links ELSE Top.failed_links IN
       \E made \in BOOLEAN :
         IF dir_exists \/ made
         THEN /\ stack' = Append(stack,
                     [links |-> ls, total_links |-> Len(ls), index |-> 0,
                      successful_downloads |-> 0, failed_downloads |-> 0,
                      failed_links |-> <<>>, failed_log_file |-> clock,
                      pass |-> Len(jobs) + 1])
              /\ jobs' = Append(jobs, [i \in 1..Len(ls) |-> NewJob(ls[i])])
              /\ pc' = "loop"
         ELSE \* os.mkdir failed: return before the loop
              /\ stack' = stack
              /\ jobs' = jobs
              /\ pc' = IF stack = <<>> THEN "main_tail" ELSE "final"
    /\ UNCHANGED <<inputs, console, handler_installed, mainVars, retry_attempted,
                   downloaded_metadata, clock, files, flushes, summaries>>

\* a loop that steps over a position
NextIndex_Skip(i) == i + 2

\* the position the for loop takes after position i
NextIndex(i) == i + 1

\* line 477: the for loop takes the next link, or ends
LoopNext ==
    /\ pc = "loop"
    /\ LET i == NextIndex(Top.index) IN
       IF i <= Len(Top.links)
       THEN /\ stack' = SetTop([Top EXCEPT !.index = i])
            /\ jobs' = [jobs EXCEPT ![Top.pass][i].state = "Running"]
            /\ pc' = "fetch"
       ELSE /\ pc' = "retry_check"
            /\ UNCHANGED <<stack, jobs>>
    /\ UNCHANGED <<inputs, console, handler_installed, mainVars, retry_attempted,
                   downloaded_metadata, clock, files, flushes, summaries>>

\* lines 484-503: the download command; check=True raises on a non-zero exit
Fetch ==
    /\ pc = "fetch"
    /\ \E ok \in BOOLEAN :
         /\ jobs' = [jobs EXCEPT ![Top.pass][Top.index] =
                        [@ EXCEPT !.fetches = @ + 1,
                                  !.fetch_ok = ok,
                                  !.template = IF filename_template # <<>>
                                               THEN filename_template
                                               ELSE FallbackTemplate]]
         /\ pc' = IF ok THEN "meta" ELSE "except"
    /\ UNCHANGED <<inputs, console, handler_installed, mainVars, retry_attempted,
                   downloaded_metadata, stack, clock, files, flushes, summaries>>

\* lines 506-517: the metadata command; a non-zero exit code raises
Meta ==
    /\ pc = "meta"
    /\ \E returncode \in {0, 1} : pc' = IF returncode # 0 THEN "except" ELSE "parse"
    /\ UNCHANGED <<inputs, console, handler_installed, mainVars, retry_attempted,
                   downloaded_metadata, stack, clock, files, history>>

\* lines 520-524: json.loads and the date; malformed output raises
Parse ==
    /\ pc = "parse"
    /\ \E wellformed \in BOOLEAN : pc' = IF wellformed THEN "append" ELSE "except"
    /\ UNCHANGED <<inputs, console, handler_installed, mainVars, retry_attempted,
                   downloaded_metadata, stack, clock, files, history>>

\* a row put at the front of the buffer
AppendRow_Front ==
    /\ pc = "append"
    /\ downloaded_metadata' = <<[url |-> Link]>> \o downloaded_metadata
    /\ jobs' = SetJob("state", "Succeeded")
    /\ pc' = "count"
    /\ UNCHANGED <<inputs, console, handler_installed, mainVars, retry_attempted,
                   stack, clock, files, flushes, summaries>>

\* lines 527-539: the row; of its columns the model keeps the URL
AppendRow ==
    /\ pc = "append"
    /\ downloaded_metadata' = Append(downloaded_metadata, [url |-> Link])
    /\ jobs' = SetJob("state", "Succeeded")
    /\ pc' = "count"
    /\ UNCHANGED <<inputs, console, handler_installed, mainVars, retry_attempted,
                   stack, clock, files, flushes, summaries>>

\* lines 541-542
CountSuccess ==
    /\ pc = "count"
    /\ stack' = SetTop([Top EXCEPT !.successful_downloads = @ + 1])
    /\ pc' = "loop"
    /\ UNCHANGED <<inputs, console, handler_installed, mainVars, retry_attempted,
                   downloaded_metadata, clock, files, history>>

\* an except clause that leaves the loop after the first failure
Except_Break ==
    /\ pc = "except"
    /\ stack' = SetTop([Top EXCEPT !.failed_downloads = @ + 1,
                                  !.failed_links = Append(@, Link),
                                  !.index = Len(Top.links)])
    /\ jobs' = SetJob("state", "Failed")
    /\ pc' = "logfail"
    /\ UNCHANGED <<inputs, console, handler_installed, mainVars, retry_attempted,
                   downloaded_metadata, clock, files, flushes, summaries>>

\* lines 544-547: the except clause up to the log
Except ==
    /\ pc = "except"
    /\ stack' = SetTop([Top EXCEPT !.failed_downloads = @ + 1,
                                  !.failed_links = Append(@, Link)])
    /\ jobs' = SetJob("state", "Failed")
    /\ pc' = "logfail"
    /\ UNCHANGED <<inputs, console, handler_installed, mainVars, retry_attempted,
                   downloaded_metadata, clock, files, flushes, summaries>>

\* a failure that is counted and queued but not written to the log
LogFail_NoWrite ==
    /\ pc = "logfail"
    /\ pc' = "loop"
    /\ UNCHANGED <<inputs, console, handler_installed, mainVars, retry_attempted,
                   downloaded_metadata, stack, clock, files, history>>

\* lines 549-551: one block appended to this pass's log file
LogFail ==
    /\ pc = "logfail"
    /\ failed_logs' = [failed_logs EXCEPT ![Top.failed_log_file] =
                          Append(@, [kind |-> "failure", link |-> Link])]
    /\ pc' = "loop"
    /\ UNCHANGED <<inputs, console, handler_installed, mainVars, retry_attempted,
                   downloaded_metadata, stack, clock, csv_files, history>>

\* the retry test without the retry_attempted flag
ShouldRetry_NoFlag(failed_links, attempted) == failed_links # <<>>

\* line 554
ShouldRetry(failed_links, attempted) == failed_links # <<>> /\ ~attempted

\* lines 561-563: the lines written when failures remain after the retry
RECURSIVE StillFailed(_)
StillFailed(ls) ==
    IF ls = <<>> THEN <<>>
    ELSE <<[kind |-> "still_failed", link |-> Head(ls)]>> \o StillFailed(Tail(ls))

\* lines 553-563: after the loop
RetryCheck ==
    /\ pc = "retry_check"
    /\ IF ShouldRetry(Top.failed_links, retry_attempted)
       THEN /\ retry_attempted' = TRUE
            /\ pc' = "call"
            /\ UNCHANGED failed_logs
       ELSE /\ pc' = "final"
            /\ UNCHANGED retry_attempted
            /\ failed_logs' =
                 IF Top.failed_links # <<>>
                 THEN [failed_logs EXCEPT ![Top.failed_log_file] =
                          @ \o <<[kind |-> "header", link |-> <<>>]>>
                            \o StillFailed(Top.failed_links)]
                 ELSE failed_logs
    /\ UNCHANGED <<inputs, console, handler_installed, mainVars, downloaded_metadata, stack,
                   clock, csv_files, history>>

\* line 566
ShouldFinish(failed_links, attempted) == ~attempted \/ failed_links = <<>>

\* lines 565-567: the flush, in the frame whose test at line 566 passes
Final ==
    /\ pc = "final"
    /\ IF ShouldFinish(Top.failed_links, retry_attempted)
       THEN /\ csv_files' = save_metadata_to_csv(csv_files, downloaded_metadata, clock)
            /\ flushes' = Append(flushes,
                   [by |-> "download_with_ytdlp", rows |-> Len(downloaded_metadata)])
            /\ pc' = "summary"
            /\ UNCHANGED stack
       ELSE /\ Return
            /\ UNCHANGED <<csv_files, flushes>>
    /\ UNCHANGED <<inputs, console, handler_installed, mainVars, retry_attempted,
                   downloaded_metadata, clock, failed_logs, jobs, summaries>>

\* lines 568-570: the summary of the frame that flushed, then its return
Summary ==
    /\ pc = "summary"
    /\ summaries' = Append(summaries,
           [successful |-> Top.successful_downloads, failed |-> Top.failed_downloads,
            total |-> Top.total_links])
    /\ Return
    /\ UNCHANGED <<inputs, console, handler_installed, mainVars, retry_attempted,
                   downloaded_metadata, clock, files, jobs, flushes>>

\* ------------------------------------------------------ the environment
\* SIGINT: signal_handler once installed (lines 16-25), else the default
\* KeyboardInterrupt; either way the process ends here
Interrupt ==
    /\ ~Ended
    /\ pc' = "exited"
    /\ IF handler_installed
       THEN /\ csv_files' = signal_handler(csv_files, downloaded_metadata, clock)
            /\ flushes' = IF downloaded_metadata # <<>>
                          THEN Append(flushes,
                                 [by |-> "signal_handler", rows |-> Len(downloaded_metadata)])
                          ELSE flushes
       ELSE UNCHANGED <<csv_files, flushes>>
    /\ UNCHANGED <<inputs, console, handler_installed, mainVars, retry_attempted,
                   downloaded_metadata, stack, clock, failed_logs, jobs, summaries>>

\* the wall clock passes into the next minute
Tick ==
    /\ ~Ended
    /\ clock < MaxClock
    /\ clock' = clock + 1
    /\ UNCHANGED <<inputs, console, pc, handler_installed, mainVars, retry_attempted,
                   downloaded_metadata, stack, files, history>>

MainSteps == MainArgs \/ MainLinks \/ MainDir \/ MainTemplate \/ MainTail

PassSteps ==
    \/ StartPass \/ LoopNext \/ Fetch \/ Meta \/ Parse \/ AppendRow \/ CountSuccess
    \/ Except \/ LogFail \/ RetryCheck \/ Final \/ Summary

Next == MainSteps \/ PassSteps \/ Interrupt \/ Tick

Spec == Init /\ [][Next]_vars

\* ------------------------------------- the run under each naming option
\* One link, no interrupt, within one minute; the command line is any
\* sequence of naming flags and values.
NamingTokens ==
    {"--no-date", "--title-only", "--creator-id", "--filename-preset", "--filename-yt-dlp",
     "--filename-custom", "clean", "%(title)s.%(ext)s", "%(title)s", "date"}

OneLinkFile == [exists |-> TRUE, lines |-> <<Chars("http://a")>>, errAt |-> 0]

InitNaming == \E av \in SeqsUpTo(NamingTokens, MaxArgs) : InitWith(av, OneLinkFile)

NextNaming == MainSteps \/ PassSteps

SpecNaming == InitNaming /\ [][NextNaming]_vars

\* --------------------------------- the resolver on any args dictionary
\* The process is taken where main has built args and is about to resolve
\* the template (line 782), or where it has built preview_args and calls
\* show_filename_preview (line 658).
CustomTokens == {"date", "creator", "videoID", "Title", "foo", "ext"}

ResolveArgs ==
    [use_cookies : {FALSE}, use_watermark : {FALSE}, no_date : BOOLEAN,
     title_only : BOOLEAN, creator_id : BOOLEAN,
     filename_preset : {"", "clean", "bogus"},
     custom_template : {<<>>, TemplateAtoms("%(title)s.%(ext)s")},
     filename_custom : SeqsUpTo(CustomTokens, MaxTokens)]

PreviewData ==
    {[upload_date |-> Digits("20241207"), uploader |-> Digits("alice"),
      title |-> <<"t">>, id |-> Digits("999")],
     [upload_date |-> <<>>, uploader |-> Digits("alice"),
      title |-> <<"t">>, id |-> Digits("999")]}

InitResolve ==
    \E a \in ResolveArgs, at \in {"template", "preview"}, d \in PreviewData :
        /\ argv = <<>>
        /\ links_file = OneLinkFile
        /\ pc = at
        /\ handler_installed = TRUE
        /\ args = a
        /\ links = IF at = "template" THEN <<Chars("http://a")>> ELSE <<>>
        /\ dir_exists = (at = "template")
        /\ filename_template = <<>>
        /\ retry_attempted = FALSE
        /\ downloaded_metadata = <<>>
        /\ stack = <<>>
        /\ clock = 0
        /\ csv_files = [m \in Minutes |-> NoCsv]
        /\ failed_logs = [m \in Minutes |-> <<>>]
        /\ jobs = <<>>
        /\ flushes = <<>>
        /\ summaries = <<>>
        /\ preview_data = IF at = "preview" THEN d ELSE NoData
        /\ preset_warning = FALSE
        /\ sample_filename = <<>>

NextResolve == MainTemplate \/ ShowPreview

SpecResolve == InitResolve /\ [][NextResolve]_vars

\* ------------------------------------------- the normalizer on any file
\* A file is the concatenation of chunks; "\n" ends a line.
Chunks == {"Link: ", "Date:", " ", "http://a", "\n"}

RECURSIVE Flatten(_)
Flatten(cs) == IF cs = <<>> THEN <<>> ELSE Chars(Head(cs)) \o Flatten(Tail(cs))

\* the lines `for line in file` delivers: each with its line end, the last
\* one without when the file does not end in one
RECURSIVE SplitLines(_, _)
SplitLines(text, line) ==
    IF text = <<>> THEN (IF line = <<>> THEN <<>> ELSE <<line>>)
    ELSE IF Head(text) = "\n"
         THEN <<Append(line, "\n")>> \o SplitLines(Tail(text), <<>>)
         ELSE SplitLines(Tail(text), Append(line, Head(text)))

InitClean ==
    \E cs \in SeqsUpTo(Chunks, MaxChunks) :
        InitWith(<<>>, [exists |-> TRUE, lines |-> SplitLines(Flatten(cs), <<>>), errAt |-> 0])

NextClean == MainArgs \/ MainLinks

SpecClean == InitClean /\ [][NextClean]_vars

\* ============================================================== claims
Terminal == {"Succeeded", "Failed"}
JobIds == UNION {{<<p, i>> : i \in 1..Len(jobs[p])} : p \in 1..Len(jobs)}
SucceededJobs == {j \in JobIds : jobs[j[1]][j[2]].state = "Succeeded"}
NumSucceeded == Cardinality(SucceededJobs)
FailedIn(p) == {i \in 1..Len(jobs[p]) : jobs[p][i].state = "Failed"}
CsvWritten == {m \in Minutes : csv_files[m].exists}
LogsWritten == {m \in Minutes : failed_logs[m] # <<>>}
FailureRecords(m) == {k \in 1..Len(failed_logs[m]) : failed_logs[m][k].kind = "failure"}

\* C1: when a run that reached download_with_ytdlp ends without interruption,
\* the success CSV on disk holds exactly one data row per job that succeeded
\* in either pass (no CSV is needed only when nothing succeeded).
C1_SuccessLogHoldsEverySuccess ==
    (pc = "done" /\ jobs # <<>>) =>
        IF NumSucceeded = 0 THEN CsvWritten = {}
        ELSE \E m \in CsvWritten : Len(csv_files[m].rows) = NumSucceeded

\* C2: a retry pass is started iff the first pass ended with a failed link,
\* and there is never a third pass: a finished run has 1 pass when the first
\* pass had no failure and 2 otherwise.
C2_RetryIffFirstPassFailed ==
    /\ Len(jobs) <= 2
    /\ Len(jobs) = 2 =>
          /\ \A i \in 1..Len(jobs[1]) : jobs[1][i].state \in Terminal
          /\ FailedIn(1) # {}
    /\ (pc = "done" /\ jobs # <<>>) =>
          Len(jobs) = IF FailedIn(1) # {} THEN 2 ELSE 1

\* C2 witness: a finished run whose retry pass ended with a failure
C2_Witness == pc = "done" /\ Len(jobs) = 2 /\ FailedIn(2) # {}

\* C3: when an uninterrupted run has finished its last pass,
\* save_metadata_to_csv has been invoked exactly once and the final summary
\* has been printed exactly once, whatever the outcomes of the two passes.
C3_OneFlushOneSummary ==
    (pc = "done" /\ jobs # <<>>) => (Len(flushes) = 1 /\ Len(summaries) = 1)

\* C4: an interrupt delivered after N >= 1 jobs have succeeded (their rows
\* appended) makes signal_handler write a success CSV with exactly those N
\* rows before the process exits, wherever in the run it arrives.
C4_InterruptSavesEverySuccess ==
    (pc = "exited" /\ NumSucceeded >= 1) =>
        /\ csv_files[clock].exists
        /\ Len(csv_files[clock].rows) = NumSucceeded
        /\ {csv_files[clock].rows[k].url : k \in 1..Len(csv_files[clock].rows)}
             = {jobs[j[1]][j[2]].url : j \in SucceededJobs}
        /\ flushes # <<>>
        /\ flushes[Len(flushes)] = [by |-> "signal_handler", rows |-> NumSucceeded]

\* C4 witness: interrupted in the retry pass, between the append of the
\* second success and the increment of the counter
C4_Witness ==
    /\ pc = "exited"
    /\ Len(jobs) = 2
    /\ NumSucceeded = 2
    /\ stack # <<>>
    /\ Top.pass = 2
    /\ Top.successful_downloads = 0

\* C5: all failure records of a run go to one single failure log file; when
\* every job fails in both passes that file holds a record for every job of
\* pass 1 and of pass 2, however the clock moves between the two passes.
C5_OneFailureLog ==
    /\ Cardinality(LogsWritten) <= 1
    /\ (pc = "done" /\ Len(jobs) = 2
        /\ FailedIn(1) = 1..Len(jobs[1]) /\ FailedIn(2) = 1..Len(jobs[2])) =>
          \E m \in Minutes :
              Cardinality(FailureRecords(m)) = Len(jobs[1]) + Len(jobs[2])

\* C6: within a pass the job at position i is started only after the job at
\* position i-1 is Succeeded or Failed, and no job of the retry pass is
\* started before every job of the first pass is Succeeded or Failed.
C6_SequentialJobsAndPasses ==
    /\ \A p \in 1..Len(jobs) : \A i \in 2..Len(jobs[p]) :
          jobs[p][i].state # "Pending" => jobs[p][i - 1].state \in Terminal
    /\ \A p \in 2..Len(jobs) :
          (\E i \in 1..Len(jobs[p]) : jobs[p][i].state # "Pending") =>
              \A q \in 1..(p - 1) : \A i \in 1..Len(jobs[q]) :
                  jobs[q][i].state \in Terminal

\* C6 witness: the second job of the retry pass has started
C6_Witness == Len(jobs) = 2 /\ Len(jobs[2]) = 2 /\ jobs[2][2].state = "Running"

\* the loop of pass p is over: a later pass exists, or the process is past
\* the loop of the innermost pass, or it ended other than by SIGINT
LoopOver(p) ==
    \/ p < Len(jobs)
    \/ pc \in {"retry_check", "call", "final", "summary", "main_tail", "done", "crashed"}

\* C7: a job failure never aborts the batch: no link is fetched twice in a
\* pass, once the loop of a pass is over every link of the pass has been
\* fetched exactly once and is Succeeded or Failed, and the steps that handle
\* a failure change no other job, no row and no counter of successes.
C7_FailureIsIsolated ==
    /\ [](\A p \in 1..Len(jobs) : \A i \in 1..Len(jobs[p]) :
             /\ jobs[p][i].fetches <= 1
             /\ LoopOver(p) =>
                   (jobs[p][i].fetches = 1 /\ jobs[p][i].state \in Terminal))
    /\ [][(pc \in {"fetch", "meta", "parse", "except", "logfail"}
           /\ pc' \in {"except", "logfail", "loop"}) =>
             /\ downloaded_metadata' = downloaded_metadata
             /\ Len(jobs') = Len(jobs)
             /\ Top'.successful_downloads = Top.successful_downloads
             /\ \A j \in JobIds :
                   j # <<Top.pass, Top.index>> => jobs'[j[1]][j[2]] = jobs[j[1]][j[2]]]_vars

\* C7 witness: the first pass is over, its first job failed and its second
\* job was fetched and succeeded
C7_Witness ==
    /\ pc = "retry_check"
    /\ Len(jobs) = 1
    /\ Len(jobs[1]) = 2
    /\ jobs[1][1].state = "Failed"
    /\ jobs[1][2].fetches = 1
    /\ jobs[1][2].state = "Succeeded"

\* C8: when the link source is a file that is missing, or cannot be read, or
\* normalizes to zero links, no fetch is ever invoked (so no link of a partly
\* read file is processed) and neither log is written.
C8_BadLinkSourceStartsNothing ==
    (/\ ~InArgv(argv, "--links")
     /\ \/ ~links_file.exists
        \/ links_file.errAt # 0
        \/ clean_links_file(links_file) = <<>>) =>
        /\ \A j \in JobIds : jobs[j[1]][j[2]].fetches = 0
        /\ CsvWritten = {}
        /\ LogsWritten = {}

\* C9: the filename template is fixed before the first job, every fetch of
\* both passes is invoked with that one template, which contains the
\* extension placeholder, and a raw --filename-yt-dlp template without the
\* placeholder ends the run before any job starts.
C9_OneTemplateWithExt ==
    /\ jobs # <<>> =>
          /\ filename_template = get_filename_template(args).template
          /\ Contains(filename_template, "%(ext)s")
    /\ \A j \in JobIds :
          jobs[j[1]][j[2]].fetches > 0 => jobs[j[1]][j[2]].template = filename_template
    /\ (/\ InArgv(argv, "--filename-yt-dlp")
        /\ IndexOf(argv, "--filename-yt-dlp") < Len(argv)
        /\ ~Contains(TemplateAtoms(argv[IndexOf(argv, "--filename-yt-dlp") + 1]), "%(ext)s"))
          => jobs = <<>>

\* C9 witness: a --filename-custom run whose link was fetched in both passes
C9_Witness ==
    /\ args.filename_custom # <<>>
    /\ Len(jobs) = 2
    /\ jobs[1][1].fetches = 1
    /\ jobs[2][1].fetches = 1

\* what the normalizer is claimed to return for one line: nothing for a line
\* that is blank or a "Date:" line after trimming, else the trimmed line
\* without a leading "Link: " label and otherwise unchanged
ClaimedLine(raw) ==
    LET line == Strip(raw) IN
    IF line = <<>> \/ StartsWith(line, Chars("Date:")) THEN <<>>
    ELSE IF StartsWith(line, Chars("Link: "))
         THEN <<SubSeq(line, Len(Chars("Link: ")) + 1, Len(line))>>
         ELSE <<line>>

RECURSIVE ClaimedLines(_)
ClaimedLines(lines) ==
    IF lines = <<>> THEN <<>> ELSE ClaimedLine(Head(lines)) \o ClaimedLines(Tail(lines))

\* C10: clean_links_file returns, in order, the lines that are neither blank
\* after trimming nor "Date:" lines, each trimmed and with a leading "Link: "
\* label removed and otherwise unchanged.
C10_NormalizerKeepsLinesUnchanged ==
    pc \notin {"main", "links"} => links = ClaimedLines(links_file.lines)

\* ----------------------------------------------------------- C11, C12
\* the template was resolved: by main (line 782) or by the preview (line 348)
Resolved == filename_template # <<>>

\* the options of the priority list, highest first, each with the template
\* it stands for
Options(a) ==
    <<[on |-> a.filename_custom # <<>>,
       template |-> build_custom_filename_template(a.filename_custom)],
      [on |-> a.custom_template # <<>>, template |-> a.custom_template],
      [on |-> a.no_date, template |-> presets["no-date"]],
      [on |-> a.title_only, template |-> presets["title-only"]],
      [on |-> a.creator_id, template |-> presets["creator-id"]],
      [on |-> a.filename_preset # "",
       template |-> IF a.filename_preset \in DOMAIN presets
                    THEN presets[a.filename_preset] ELSE presets["default"]]>>

\* C11: the resolved template is the template of the first option of the
\* priority list (variable list, raw template, no-date, title-only,
\* creator-id, named preset) that is set, whatever the lower options are, and
\* the default preset when none is set; the warning is printed exactly when
\* the named preset is the first option set and its name is unknown, and the
\* template is then the default preset's.
C11_FirstMatchWins ==
    Resolved =>
        LET opts == Options(args)
            set == {i \in 1..Len(opts) : opts[i].on}
            unknown == args.filename_preset # "" /\ args.filename_preset \notin DOMAIN presets
        IN  /\ \A i \in set : (\A j \in set : i <= j) => filename_template = opts[i].template
            /\ set = {} => filename_template = presets["default"]
            /\ preset_warning <=> (set = {6} /\ unknown)
            /\ preset_warning => filename_template = presets["default"]

\* a convenience flag and a known preset are both given and the flag won
C11_Witness ==
    /\ pc = "call"
    /\ args.filename_custom = <<>> /\ args.custom_template = <<>>
    /\ args.title_only /\ ~args.no_date /\ args.filename_preset = "clean"
    /\ filename_template = presets["title-only"]

\* the Variable Table read case-insensitively, on the tokens of CustomTokens
VariableTable(token) ==
    CASE token = "date"    -> "%(upload_date>%Y-%m-%d)s"
      [] token = "creator" -> "%(uploader).50s"
      [] token = "videoID" -> "%(id)s"
      [] token = "Title"   -> "%(title).180B"
      [] token = "ext"     -> "%(ext)s"
      [] OTHER             -> token

ScenarioArgs == args.filename_custom = <<"date", "creator", "videoID">>
ScenarioData ==
    /\ preview_data.upload_date = Digits("20241207")
    /\ preview_data.uploader = Digits("alice")
    /\ preview_data.id = Digits("999")
Rendered == sample_filename # <<>>

\* C12: when a non-empty variable list was resolved, the template has at its
\* k-th odd position the placeholder of the k-th token (the token itself when
\* it is not in the table), "_" between, nothing else but a trailing
\* "." + extension placeholder when no token gave it, and so contains the
\* extension placeholder; and the preview of [date, creator, videoID] with
\* upload_date 20241207, uploader alice, id 999 is 2024-12-07_alice_999.mp4.
C12_CustomListMapsAndRenders ==
    /\ (Resolved /\ args.filename_custom # <<>>) =>
          LET v == args.filename_custom
              n == Len(v)
              t == filename_template
          IN  /\ Len(t) \in {2 * n - 1, 2 * n + 1}
              /\ \A k \in 1..n : t[2 * k - 1] = VariableTable(v[k])
              /\ \A k \in 1..(n - 1) : t[2 * k] = "_"
              /\ Contains(t, "%(ext)s")
              /\ Len(t) = 2 * n + 1 <=> ~(\E k \in 1..n : VariableTable(v[k]) = "%(ext)s")
              /\ Len(t) = 2 * n + 1 => (t[2 * n] = "." /\ t[2 * n + 1] = "%(ext)s")
    /\ (Rendered /\ ScenarioArgs /\ ScenarioData) =>
          sample_filename =
              <<"2", "0", "2", "4", "-", "1", "2", "-", "0", "7", "_",
                "a", "l", "i", "c", "e", "_", "9", "9", "9", ".", "m", "p", "4">>

\* the scenario's preview was rendered
C12_Witness == pc = "done" /\ Rendered /\ ScenarioArgs /\ ScenarioData

\* ------------------------------------------------------ C13, C14, C16
\* C13: the links that download_with_ytdlp receives for the first pass hold
\* no URL twice: no two jobs of the first pass have the same URL.
C13_FirstPassLinksDeduplicated ==
    jobs # <<>> =>
        \A i, k \in 1..Len(jobs[1]) : jobs[1][i].url = jobs[1][k].url => i = k

\* the position in the first pass of the k-th link of the retry pass: the
\* k-th position, in input order, whose job failed
NthFailed(k) ==
    CHOOSE i \in FailedIn(1) : Cardinality({j \in FailedIn(1) : j < i}) = k - 1

\* C14: a link whose fetch succeeded in the first pass is not fetched again
\* in the retry pass, whatever became of its metadata extraction.
C14_NoFetchAfterFetchSucceeded ==
    Len(jobs) >= 2 =>
        \A k \in 1..Len(jobs[2]) :
            (k <= Cardinality(FailedIn(1)) /\ jobs[2][k].fetches > 0)
                => ~jobs[1][NthFailed(k)].fetch_ok

\* the calls of save_metadata_to_csv that found rows in the buffer
NonEmptyFlushes == {k \in 1..Len(flushes) : flushes[k].rows > 0}

\* C16: on every run path, interrupted or not, save_metadata_to_csv runs with
\* a non-empty buffer at most once, and a call of it with an empty buffer
\* leaves every file as it was.
C16_AtMostOneNonEmptyFlush ==
    /\ [](Cardinality(NonEmptyFlushes) <= 1)
    /\ [][(Len(flushes') > Len(flushes) /\ flushes'[Len(flushes')].rows = 0)
             => UNCHANGED <<csv_files, failed_logs>>]_vars

\* ----------------------------------------------------------- C15, C17
Urls == {jobs[j[1]][j[2]].url : j \in JobIds}
FailedJobs == {j \in JobIds : jobs[j[1]][j[2]].state = "Failed"}
FailedWith(u) == {j \in FailedJobs : jobs[j[1]][j[2]].url = u}
LoggedWith(u) ==
    UNION {{<<m, k>> : k \in {x \in FailureRecords(m) : failed_logs[m][x].link = u}} :
           m \in Minutes}

\* the job that was started last: no job of a later pass or position has left Pending
IsLatest(j) ==
    /\ j[1] = Len(jobs)
    /\ \A i \in (j[2] + 1)..Len(jobs[j[1]]) : jobs[j[1]][i].state = "Pending"

\* the URLs of the jobs of pass p that failed, in the order of the pass
RECURSIVE FailedUrlsUpTo(_, _)
FailedUrlsUpTo(p, n) ==
    IF n = 0 THEN <<>>
    ELSE FailedUrlsUpTo(p, n - 1) \o
         (IF jobs[p][n].state = "Failed" THEN <<jobs[p][n].url>> ELSE <<>>)
FailedUrls(p) == FailedUrlsUpTo(p, Len(jobs[p]))

\* C15: every failed job has its failure record in a failure log once a
\* later job has started (only the failure of the job started last may be
\* unwritten yet), every pass's retry set is the sequence of the links whose
\* jobs failed in it, in order, and the retry pass has exactly one job per
\* failed job of the first pass, in first-pass order, with that job's link,
\* so no job that succeeded in the first pass has a job in the retry pass.
C15_FailuresLoggedAndRetried ==
    /\ \A u \in Urls :
          LET missing == Cardinality(FailedWith(u)) - Cardinality(LoggedWith(u)) IN
          /\ missing \in {0, 1}
          /\ missing = 1 => \E j \in FailedWith(u) : IsLatest(j)
    /\ \A d \in 1..Len(stack) : stack[d].failed_links = FailedUrls(stack[d].pass)
    /\ Len(jobs) >= 2 =>
          /\ [k \in 1..Len(jobs[2]) |-> jobs[2][k].url] = FailedUrls(1)
          /\ Len(jobs[2]) = Cardinality(FailedIn(1))
          /\ Len(jobs[2]) + Cardinality({i \in 1..Len(jobs[1]) :
                                            jobs[1][i].state = "Succeeded"}) = Len(jobs[1])

\* a first pass with a success and a failure, in that order, was retried and
\* the retried job failed again and is logged
C15_Witness ==
    /\ Len(jobs) = 2 /\ Len(jobs[1]) = 2
    /\ jobs[1][1].state = "Succeeded" /\ jobs[1][2].state = "Failed"
    /\ jobs[2][1].state = "Failed"
    /\ pc = "retry_check"
    /\ Cardinality(LoggedWith(jobs[1][2].url)) = 2

\* the fetches made for the link entry at position i of the input list
Attempts(i) ==
    jobs[1][i].fetches +
    (IF Len(jobs) >= 2 /\ i \in FailedIn(1)
     THEN LET k == Cardinality({j \in FailedIn(1) : j <= i}) IN
          IF k <= Len(jobs[2]) THEN jobs[2][k].fetches ELSE 0
     ELSE 0)

RowsWith(u) == {k \in 1..Len(downloaded_metadata) : downloaded_metadata[k].url = u}

\* the URLs of the jobs that succeeded, pass by pass and in the order of each pass
RECURSIVE SucceededUrlsUpTo(_, _)
SucceededUrlsUpTo(p, n) ==
    IF p = 0 THEN <<>>
    ELSE IF n = 0 THEN SucceededUrlsUpTo(p - 1, IF p = 1 THEN 0 ELSE Len(jobs[p - 1]))
    ELSE SucceededUrlsUpTo(p, n - 1) \o
         (IF jobs[p][n].state = "Succeeded" THEN <<jobs[p][n].url>> ELSE <<>>)
SucceededUrls ==
    IF jobs = <<>> THEN <<>> ELSE SucceededUrlsUpTo(Len(jobs), Len(jobs[Len(jobs)]))

IsPrefix(s, t) == Len(s) <= Len(t) /\ SubSeq(t, 1, Len(s)) = s

\* C17: no link entry is fetched more than twice and, when the run ends
\* without interruption, none less than once; a job that succeeded is never
\* touched again and has no job in the retry pass; the buffer holds one row
\* per succeeded job and never more rows of a URL than the input list has
\* entries of it; its rows are the succeeded jobs' in the order they succeeded;
\* and each step leaves the rows already in the buffer in place.
C17_AttemptsAndBufferGrowth ==
    /\ [](jobs # <<>> =>
            /\ \A i \in 1..Len(jobs[1]) :
                  /\ Attempts(i) <= 2
                  /\ pc = "done" => Attempts(i) >= 1
                  /\ (jobs[1][i].state = "Succeeded" /\ Len(jobs) >= 2) =>
                         Len(jobs[2]) <= Len(jobs[1]) - 1
            /\ Len(jobs) <= 2
            /\ Len(jobs) >= 2 =>
                  Len(jobs[2]) = Cardinality(FailedIn(1))
            /\ Len(downloaded_metadata) = NumSucceeded
            /\ \A u \in Urls :
                  Cardinality(RowsWith(u)) <=
                      Cardinality({i \in 1..Len(jobs[1]) : jobs[1][i].url = u})
            /\ [k \in 1..Len(downloaded_metadata) |-> downloaded_metadata[k].url]
                  = SucceededUrls)
    /\ [][/\ IsPrefix(downloaded_metadata, downloaded_metadata')
          /\ \A j \in JobIds :
                jobs[j[1]][j[2]].state = "Succeeded" => jobs'[j[1]][j[2]] = jobs[j[1]][j[2]]]_vars

\* a run ended in which one entry succeeded at once and the other on the retry
C17_Witness ==
    /\ pc = "done" /\ Len(jobs) = 2 /\ Len(jobs[1]) = 2
    /\ jobs[1][1].state = "Failed" /\ jobs[1][2].state = "Succeeded"
    /\ jobs[2][1].state = "Succeeded"
    /\ Len(downloaded_metadata) = 2
    /\ Attempts(1) = 2 /\ Attempts(2) = 1

====
